---- MODULE Spec2Model ----
(***************************************************************************)
(* Gallery logic of script.js: catalog loading with fallback, the          *)
(* Featured / Detail view switch, product-type filters, the paginated      *)
(* product grid and its stagger-animation timers.                          *)
(*                                                                         *)
(* Every handler of the script runs to completion on the single UI         *)
(* thread, so each one is a single action.  A handler is written as a      *)
(* function from a store record (the script's `state` object plus the DOM  *)
(* it writes) to a store record; the field `threw` records an uncaught     *)
(* TypeError, after which the rest of the handler does not run.            *)
(***************************************************************************)
EXTENDS Integers, Sequences, FiniteSets, TLC

VARIABLES
  server,             \* what the request for gallery-data.json will produce
  dom,                \* ids of the elements present in the document
  pc,                 \* position of loadGalleryData
  fetches,            \* number of calls made to fetch("gallery-data.json")
  galleryData,        \* state.galleryData
  galleryWrites,      \* number of assignments made to state.galleryData
  banner,             \* the error banner has been prepended to #galeria
  currentFandom,      \* state.currentFandom
  currentProductType, \* state.currentProductType
  currentPage,        \* state.currentPage
  fandomButtons,      \* .filter-btn controls inside #fandomFilters
  featuredTiles,      \* .featured-item tiles inside #featuredGrid
  typeButtons,        \* .product-type-btn controls inside #productTypeFilters
  productGrid,        \* .product-item tiles inside #productGrid
  stale,              \* per replaced render, its detached tiles with a pending timer
  featuredDisplay,    \* #featuredView style.display
  fandomDisplay,      \* #fandomView style.display
  selectedFandomName, \* #selectedFandomName textContent
  prevDisabled,       \* #prevPage disabled
  nextDisabled,       \* #nextPage disabled
  handlersBound,      \* #prevPage / #nextPage have their onclick set
  boundTotalPages,    \* totalPages captured by the bound onclick closures
  uncaught,           \* some handler ended with an uncaught exception
  lastEvent           \* the handler that ran last, and the page it started on

storeVars == <<galleryData, galleryWrites, banner, currentFandom,
               currentProductType, currentPage, fandomButtons, featuredTiles,
               typeButtons, productGrid, stale, featuredDisplay,
               fandomDisplay, selectedFandomName, prevDisabled, nextDisabled,
               handlersBound, boundTotalPages>>

vars == <<server, dom, pc, fetches, storeVars, uncaught, lastEvent>>

----------------------------------------------------------------------------
(* Bounds of the model *)

\* render batches that may have timers pending after leaving the grid
MaxStale == 1
\* largest page number tried when renderProducts is exercised on its own
MaxPage == 4
\* how many of the consumed elements may be missing from the document
MaxAbsent == 1

----------------------------------------------------------------------------
(* Program constants *)

\* CONFIG.itemsPerPage
itemsPerPage == 6

\* the number of fandoms shown as featured: fandoms.slice(0, 6)
featuredCount == 6

\* JavaScript null
Null == [type |-> "null"]

\* the ids passed to document.getElementById by the gallery code
Elements == {"galeria", "fandomFilters", "featuredGrid", "featuredView",
             "fandomView", "selectedFandomName", "productTypeFilters",
             "productGrid", "prevPage", "nextPage"}

----------------------------------------------------------------------------
(* Catalog values *)

\* the products of fandom f under key t: n products in catalog order
Products(f, t, n) == [i \in 1..n |-> [id |-> <<f, t, i>>]]

\* an object literal's own keys keep insertion order, so `products` is an
\* ordered list of (key, items) entries
Entry(f, t, n) == [key |-> t, items |-> Products(f, t, n)]

getFallbackData ==
  [type |-> "object",
   fandoms |-> << [id |-> "isaac", name |-> "The Binding of Isaac",
                   products |-> << Entry("isaac", "llaveros", 2) >>] >>,
   productTypes |-> << [id |-> "llaveros"] >>]

\* two fandoms, one product type with 13 products, and a fandom without any
\* product-type key
CatalogA ==
  [type |-> "object",
   fandoms |-> << [id |-> "isaac", name |-> "The Binding of Isaac",
                   products |-> << Entry("isaac", "llaveros", 13),
                                   Entry("isaac", "stickers", 6) >>],
                  [id |-> "hades", name |-> "Hades",
                   products |-> << >>] >>,
   productTypes |-> << [id |-> "llaveros"], [id |-> "stickers"] >>]

\* a fandom whose first key ("pins") is not a defined ProductType, and a
\* fandom whose first key has no products
CatalogB ==
  [type |-> "object",
   fandoms |-> << [id |-> "isaac", name |-> "The Binding of Isaac",
                   products |-> << Entry("isaac", "pins", 7),
                                   Entry("isaac", "llaveros", 2) >>],
                  [id |-> "hades", name |-> "Hades",
                   products |-> << Entry("hades", "llaveros", 0),
                                   Entry("hades", "stickers", 12) >>] >>,
   productTypes |-> << [id |-> "llaveros"], [id |-> "stickers"] >>]

\* parseable bodies that do not have the Catalog shape
EmptyObject == [type |-> "object"]
NoProductTypes ==
  [type |-> "object",
   fandoms |-> << [id |-> "isaac", name |-> "The Binding of Isaac",
                   products |-> << Entry("isaac", "llaveros", 7) >>] >>]

WellFormedBodies == {CatalogA, CatalogB}
MalformedBodies == {Null, EmptyObject, NoProductTypes}

\* outcomes of fetch("gallery-data.json") followed by response.json()
FailureKinds == {"network_error", "http_error", "parse_error"}
Failures == {[kind |-> k] : k \in FailureKinds}
Successes(bodies) == {[kind |-> "ok", body |-> b] : b \in bodies}

HasField(obj, f) == f \in DOMAIN obj

----------------------------------------------------------------------------
(* JavaScript helpers *)

Min(a, b) == IF a <= b THEN a ELSE b

\* slice that also takes the element at `end`
sliceInclusive(arr, start, end) ==
  LET lo == Min(start, Len(arr))
      hi == Min(end + 1, Len(arr))
  IN IF lo >= hi THEN << >> ELSE SubSeq(arr, lo + 1, hi)

\* Array.prototype.slice(start, end) for 0 <= start <= end
slice(arr, start, end) ==
  LET lo == Min(start, Len(arr))
      hi == Min(end, Len(arr))
  IN IF lo >= hi THEN << >> ELSE SubSeq(arr, lo + 1, hi)

\* Math.ceil(n / d) for integers n >= 0, d > 0
ceil(n, d) == IF n % d = 0 THEN n \div d ELSE (n \div d) + 1

\* Array.prototype.find on the id: the first element with that id, or Null
findById(arr, id) ==
  IF \E i \in 1..Len(arr) : arr[i].id = id
  THEN arr[CHOOSE i \in 1..Len(arr) :
             arr[i].id = id /\ \A j \in 1..(i - 1) : arr[j].id # id]
  ELSE Null

\* fandom.products[key] || []
productsOf(fandom, key) ==
  IF \E i \in 1..Len(fandom.products) : fandom.products[i].key = key
  THEN fandom.products[CHOOSE i \in 1..Len(fandom.products) :
                          fandom.products[i].key = key].items
  ELSE << >>

----------------------------------------------------------------------------
(* The store: the script's `state` object and the DOM the gallery writes *)

Store ==
  [galleryData |-> galleryData, galleryWrites |-> galleryWrites,
   banner |-> banner, currentFandom |-> currentFandom,
   currentProductType |-> currentProductType, currentPage |-> currentPage,
   fandomButtons |-> fandomButtons, featuredTiles |-> featuredTiles,
   typeButtons |-> typeButtons, productGrid |-> productGrid, stale |-> stale,
   featuredDisplay |-> featuredDisplay, fandomDisplay |-> fandomDisplay,
   selectedFandomName |-> selectedFandomName, prevDisabled |-> prevDisabled,
   nextDisabled |-> nextDisabled, handlersBound |-> handlersBound,
   boundTotalPages |-> boundTotalPages, threw |-> FALSE]

\* the store after a handler becomes the next state
Commit(st) ==
  /\ galleryData' = st.galleryData
  /\ galleryWrites' = st.galleryWrites
  /\ banner' = st.banner
  /\ currentFandom' = st.currentFandom
  /\ currentProductType' = st.currentProductType
  /\ currentPage' = st.currentPage
  /\ fandomButtons' = st.fandomButtons
  /\ featuredTiles' = st.featuredTiles
  /\ typeButtons' = st.typeButtons
  /\ productGrid' = st.productGrid
  /\ stale' = st.stale
  /\ featuredDisplay' = st.featuredDisplay
  /\ fandomDisplay' = st.fandomDisplay
  /\ selectedFandomName' = st.selectedFandomName
  /\ prevDisabled' = st.prevDisabled
  /\ nextDisabled' = st.nextDisabled
  /\ handlersBound' = st.handlersBound
  /\ boundTotalPages' = st.boundTotalPages
  /\ uncaught' = (uncaught \/ st.threw)

\* an uncaught TypeError: the statements after it do not run
Throw(st) == [st EXCEPT !.threw = TRUE]

\* document.getElementById(id) returned an element
Present(id) == id \in dom

----------------------------------------------------------------------------
(* Catalog loading and initialization *)

renderFandomFilters(st) ==
  IF ~Present("fandomFilters") \/ st.galleryData = Null THEN st
  ELSE IF ~HasField(st.galleryData, "fandoms") THEN Throw(st)
  ELSE [st EXCEPT !.fandomButtons =
          << [fandom |-> "all", active |-> TRUE] >> \o
          [i \in 1..Len(st.galleryData.fandoms) |->
             [fandom |-> st.galleryData.fandoms[i].id, active |-> FALSE]]]

renderFeaturedProducts(st) ==
  IF ~Present("featuredGrid") \/ st.galleryData = Null THEN st
  ELSE IF ~HasField(st.galleryData, "fandoms") THEN Throw(st)
  ELSE LET shown == slice(st.galleryData.fandoms, 0, featuredCount)
       IN [st EXCEPT !.featuredTiles =
             [i \in 1..Len(shown) |-> shown[i].id]]

initializeGallery(st) ==
  LET s1 == renderFandomFilters(st)
  IN IF s1.threw THEN s1 ELSE renderFeaturedProducts(s1)

\* a catch block that stores the fallback but does not initialize the gallery
loadCatchNoInit(st) ==
  [st EXCEPT !.threw = FALSE,
             !.banner = (st.banner \/ Present("galeria")),
             !.galleryData = getFallbackData,
             !.galleryWrites = st.galleryWrites + 1]

\* the catch block of loadGalleryData
loadCatch(st) ==
  LET s1 == [st EXCEPT !.threw = FALSE,
                       !.banner = (st.banner \/ Present("galeria")),
                       !.galleryData = getFallbackData,
                       !.galleryWrites = st.galleryWrites + 1]
  IN initializeGallery(s1)

\* the try block of loadGalleryData from the assignment on, given the value
\* response.json() resolved to
loadParsed(st, body) ==
  LET s1 == [st EXCEPT !.galleryData = body,
                       !.galleryWrites = st.galleryWrites + 1]
      s2 == initializeGallery(s1)
  IN IF s2.threw THEN loadCatch(s2) ELSE s2

----------------------------------------------------------------------------
(* Product grid and pagination *)

\* "next" is disabled on the last page only, an empty list is not considered
updatePaginationNoEmpty(st, totalItems, totalPages) ==
  IF ~Present("prevPage") THEN Throw(st)
  ELSE LET s1 == [st EXCEPT !.prevDisabled = (st.currentPage = 1)]
       IN IF ~Present("nextPage") THEN Throw(s1)
          ELSE [s1 EXCEPT !.nextDisabled = (st.currentPage = totalPages),
                          !.handlersBound = TRUE,
                          !.boundTotalPages = totalPages]

updatePaginationControls(st, totalItems, totalPages) ==
  IF ~Present("prevPage") THEN Throw(st)
  ELSE LET s1 == [st EXCEPT !.prevDisabled = (st.currentPage = 1)]
       IN IF ~Present("nextPage") THEN Throw(s1)
          ELSE [s1 EXCEPT !.nextDisabled =
                            (st.currentPage = totalPages \/ totalPages = 0),
                          !.handlersBound = TRUE,
                          !.boundTotalPages = totalPages]

\* how many tiles of the grid still wait for their timer
pendingOf(grid) == Cardinality({i \in 1..Len(grid) : grid[i].pending})

\* productGrid.innerHTML = html: the old tiles are detached, new ones created
replaceGrid(st, products) ==
  [st EXCEPT !.productGrid =
               [i \in 1..Len(products) |->
                  [id |-> products[i].id, opacity |-> "", pending |-> FALSE]],
             !.stale = IF pendingOf(st.productGrid) = 0 THEN st.stale
                       ELSE Append(st.stale, pendingOf(st.productGrid))]

\* a stagger loop that hides the tiles and schedules a timer only for the
\* first of them
staggerFirstOnly(st) ==
  [st EXCEPT !.productGrid =
     [i \in 1..Len(st.productGrid) |->
        [st.productGrid[i] EXCEPT !.opacity = "0", !.pending = (i = 1)]]]

\* the stagger loop: every tile is hidden and gets its own timer
stagger(st) ==
  [st EXCEPT !.productGrid =
     [i \in 1..Len(st.productGrid) |->
        [st.productGrid[i] EXCEPT !.opacity = "0", !.pending = TRUE]]]

renderProducts(st) ==
  IF st.currentFandom = Null THEN st
  ELSE LET products == productsOf(st.currentFandom, st.currentProductType)
           totalPages == ceil(Len(products), itemsPerPage)
           startIndex == (st.currentPage - 1) * itemsPerPage
           endIndex == startIndex + itemsPerPage
           currentProducts == slice(products, startIndex, endIndex)
       IN IF ~Present("productGrid") THEN st
          ELSE LET s1 == replaceGrid(st, currentProducts)
                   s2 == updatePaginationControls(s1, Len(products), totalPages)
               IN IF s2.threw THEN s2 ELSE stagger(s2)

----------------------------------------------------------------------------
(* View switching *)

\* a featured view that keeps the selected fandom
showFeaturedViewKeepsFandom(st) ==
  IF ~Present("featuredView") THEN Throw(st)
  ELSE LET s1 == [st EXCEPT !.featuredDisplay = "block"]
       IN IF ~Present("fandomView") THEN Throw(s1)
          ELSE [s1 EXCEPT !.fandomDisplay = "none"]

showFeaturedView(st) ==
  IF ~Present("featuredView") THEN Throw(st)
  ELSE LET s1 == [st EXCEPT !.featuredDisplay = "block"]
       IN IF ~Present("fandomView") THEN Throw(s1)
          ELSE [s1 EXCEPT !.fandomDisplay = "none", !.currentFandom = Null]

\* the controls built by the forEach over Object.keys(fandom.products);
\* index is the 0-based position of the key
RECURSIVE typeControls(_, _, _)
typeControls(entries, index, productTypes) ==
  IF index >= Len(entries) THEN << >>
  ELSE LET productTypeId == entries[index + 1].key
           productType == findById(productTypes, productTypeId)
       IN (IF productType = Null THEN << >>
           ELSE << [type |-> productType.id, active |-> (index = 0)] >>)
          \o typeControls(entries, index + 1, productTypes)

renderProductTypeFilters(st, fandom) ==
  IF ~Present("productTypeFilters") THEN st
  ELSE IF fandom.products # << >> /\ ~HasField(st.galleryData, "productTypes")
       THEN Throw(st)
  ELSE IF fandom.products = << >> THEN [st EXCEPT !.typeButtons = << >>]
  ELSE [st EXCEPT !.typeButtons =
          typeControls(fandom.products, 0, st.galleryData.productTypes)]

\* a detail view that is switched to before the fandom is looked up
showFandomDetailSwitchesFirst(st, fandomId) ==
  IF st.galleryData = Null \/ ~HasField(st.galleryData, "fandoms")
  THEN Throw(st)
  ELSE
  LET fandom == findById(st.galleryData.fandoms, fandomId)
      s0 == [st EXCEPT !.featuredDisplay = "none", !.fandomDisplay = "block"]
  IN IF fandom = Null THEN s0
     ELSE
     LET s4 == [s0 EXCEPT !.currentFandom = fandom, !.currentPage = 1,
                          !.selectedFandomName = fandom.name]
         s5 == renderProductTypeFilters(s4, fandom)
         s6 == [s5 EXCEPT !.currentProductType =
                  IF fandom.products # << >>
                  THEN fandom.products[1].key ELSE "llaveros"]
     IN renderProducts(s6)

showFandomDetail(st, fandomId) ==
  IF st.galleryData = Null \/ ~HasField(st.galleryData, "fandoms")
  THEN Throw(st)
  ELSE
  LET fandom == findById(st.galleryData.fandoms, fandomId)
  IN IF fandom = Null THEN st
     ELSE
     LET s1 == [st EXCEPT !.currentFandom = fandom, !.currentPage = 1]
     IN IF ~Present("featuredView") THEN Throw(s1)
        ELSE
        LET s2 == [s1 EXCEPT !.featuredDisplay = "none"]
        IN IF ~Present("fandomView") THEN Throw(s2)
           ELSE
           LET s3 == [s2 EXCEPT !.fandomDisplay = "block"]
           IN IF ~Present("selectedFandomName") THEN Throw(s3)
              ELSE
              LET s4 == [s3 EXCEPT !.selectedFandomName = fandom.name]
                  s5 == renderProductTypeFilters(s4, fandom)
              IN IF s5.threw THEN s5
                 ELSE
                 LET s6 == [s5 EXCEPT !.currentProductType =
                              IF fandom.products # << >>
                              THEN fandom.products[1].key ELSE "llaveros"]
                     s7 == renderProducts(s6)
                 IN IF s7.threw THEN s7
                    ELSE IF ~Present("galeria") THEN Throw(s7) ELSE s7

\* the click listener of the fandom control at position i
handleFandomFilter(st, i) ==
  LET fandomId == st.fandomButtons[i].fandom
      s1 == [st EXCEPT !.fandomButtons =
               [j \in 1..Len(st.fandomButtons) |->
                  [st.fandomButtons[j] EXCEPT !.active = (j = i)]]]
  IN IF fandomId = "all" THEN showFeaturedView(s1)
     ELSE showFandomDetail(s1, fandomId)

\* a product-type listener that keeps the current page
productTypeClickKeepsPage(st, i) ==
  LET s1 == [st EXCEPT !.typeButtons =
               [j \in 1..Len(st.typeButtons) |->
                  [st.typeButtons[j] EXCEPT !.active = (j = i)]],
             !.currentProductType = st.typeButtons[i].type]
  IN renderProducts(s1)

\* the click listener of the product-type control at position i
productTypeClick(st, i) ==
  LET s1 == [st EXCEPT !.typeButtons =
               [j \in 1..Len(st.typeButtons) |->
                  [st.typeButtons[j] EXCEPT !.active = (j = i)]],
             !.currentProductType = st.typeButtons[i].type,
             !.currentPage = 1]
  IN renderProducts(s1)

\* a prev handler that reloads the fallback catalog before rendering
prevClickReloads(st) ==
  IF st.currentPage > 1
  THEN renderProducts([st EXCEPT !.currentPage = st.currentPage - 1,
                                 !.galleryData = getFallbackData,
                                 !.galleryWrites = st.galleryWrites + 1])
  ELSE st

\* prevBtn.onclick
prevClick(st) ==
  IF st.currentPage > 1
  THEN renderProducts([st EXCEPT !.currentPage = st.currentPage - 1])
  ELSE st

\* a next handler that skips a page
nextClickSkips(st) ==
  IF st.currentPage < st.boundTotalPages
  THEN renderProducts([st EXCEPT !.currentPage = st.currentPage + 2])
  ELSE st

\* a next handler that moves the page without rendering it
nextClickNoRender(st) ==
  IF st.currentPage < st.boundTotalPages
  THEN [st EXCEPT !.currentPage = st.currentPage + 1]
  ELSE st

\* nextBtn.onclick, with the totalPages its closure captured
nextClick(st) ==
  IF st.currentPage < st.boundTotalPages
  THEN renderProducts([st EXCEPT !.currentPage = st.currentPage + 1])
  ELSE st

\* the timer callback of the tile at position i of the grid
timerFire(st, i) ==
  [st EXCEPT !.productGrid[i].opacity = "1", !.productGrid[i].pending = FALSE]

\* a callback that looks its tile up by position in the live grid instead
\* of keeping the node it was scheduled for
staleTimerFireByIndex(st, b) ==
  [st EXCEPT !.stale =
     IF st.stale[b] = 1
     THEN SubSeq(st.stale, 1, b - 1) \o SubSeq(st.stale, b + 1, Len(st.stale))
     ELSE [st.stale EXCEPT ![b] = st.stale[b] - 1],
             !.productGrid =
     [i \in 1..Len(st.productGrid) |->
        IF i = Len(st.productGrid)
        THEN [st.productGrid[i] EXCEPT !.opacity = "1"]
        ELSE st.productGrid[i]]]

\* the timer callback of the first waiting tile of detached batch b: the
\* style it sets belongs to a node that is no longer in the document, so
\* only the number of timers the batch still waits for changes
staleTimerFire(st, b) ==
  [st EXCEPT !.stale =
     IF st.stale[b] = 1
     THEN SubSeq(st.stale, 1, b - 1) \o SubSeq(st.stale, b + 1, Len(st.stale))
     ELSE [st.stale EXCEPT ![b] = st.stale[b] - 1]]

----------------------------------------------------------------------------
(* Initial states *)

\* the page before DOMContentLoaded: `state` as declared, nothing rendered;
\* the disabled attributes of the pagination buttons come from the markup
InitPage ==
  /\ pc = "start"
  /\ fetches = 0
  /\ galleryData = Null
  /\ galleryWrites = 0
  /\ banner = FALSE
  /\ currentFandom = Null
  /\ currentProductType = "llaveros"
  /\ currentPage = 1
  /\ fandomButtons = << >>
  /\ featuredTiles = << >>
  /\ typeButtons = << >>
  /\ productGrid = << >>
  /\ stale = << >>
  /\ featuredDisplay = ""
  /\ fandomDisplay = ""
  /\ selectedFandomName = ""
  /\ prevDisabled \in BOOLEAN
  /\ nextDisabled \in BOOLEAN
  /\ handlersBound = FALSE
  /\ boundTotalPages = 0
  /\ uncaught = FALSE
  /\ lastEvent = [type |-> "none", arg |-> "", fromPage |-> 1]

\* a catalog of the documented shape (or a failed fetch), the full document
Init ==
  /\ server \in Failures \cup Successes(WellFormedBodies)
  /\ dom = Elements
  /\ InitPage

\* documents from which up to MaxAbsent of the consumed elements are missing
InitDom ==
  /\ server \in Failures \cup Successes(WellFormedBodies)
  /\ dom \in {Elements \ absent : absent \in
                {a \in SUBSET Elements : Cardinality(a) <= MaxAbsent}}
  /\ InitPage

\* any parseable body, of the Catalog shape or not
InitShape ==
  /\ server \in Failures \cup Successes(WellFormedBodies \cup MalformedBodies)
  /\ dom = Elements
  /\ InitPage

----------------------------------------------------------------------------
(* Actions *)

Event(type, arg) == [type |-> type, arg |-> arg, fromPage |-> currentPage]

\* a render that would leave more than MaxStale batches waiting is not taken
Handled(st, type, arg) ==
  /\ Len(st.stale) <= MaxStale
  /\ Commit(st)
  /\ lastEvent' = Event(type, arg)
  /\ UNCHANGED <<server, dom, fetches>>

\* document's DOMContentLoaded listener: loadGalleryData up to `await fetch`
DOMContentLoaded ==
  /\ pc = "start"
  /\ pc' = "fetching"
  /\ fetches' = fetches + 1
  /\ UNCHANGED <<server, dom, storeVars, uncaught, lastEvent>>

\* a loader that fetches a second time after a first failure
FetchSettlesRetries ==
  /\ pc = "fetching"
  /\ IF server.kind \in {"network_error", "http_error"}
     THEN IF fetches < 2
          THEN /\ pc' = "fetching"
               /\ fetches' = fetches + 1
               /\ UNCHANGED <<server, dom, storeVars, uncaught, lastEvent>>
          ELSE /\ pc' = "ready"
               /\ Handled(loadCatch(Store), "load", server.kind)
     ELSE /\ pc' = "parsing"
          /\ UNCHANGED <<server, dom, fetches, storeVars, uncaught,
                         lastEvent>>

\* the fetch settles: rejection and a non-2xx status go to the catch block,
\* a 2xx response goes on to `await response.json()`
FetchSettles ==
  /\ pc = "fetching"
  /\ IF server.kind \in {"network_error", "http_error"}
     THEN /\ pc' = "ready"
          /\ Handled(loadCatch(Store), "load", server.kind)
     ELSE /\ pc' = "parsing"
          /\ UNCHANGED <<server, dom, fetches, storeVars, uncaught,
                         lastEvent>>

\* response.json() settles: a parse error goes to the catch block, a parsed
\* body is stored and the gallery initialized
JsonSettles ==
  /\ pc = "parsing"
  /\ pc' = "ready"
  /\ IF server.kind = "parse_error"
     THEN Handled(loadCatch(Store), "load", server.kind)
     ELSE Handled(loadParsed(Store, server.body), "load", server.kind)

FandomClick(i) ==
  /\ i \in 1..Len(fandomButtons)
  /\ Handled(handleFandomFilter(Store, i), "fandomClick",
             fandomButtons[i].fandom)
  /\ UNCHANGED pc

FeaturedClick(i) ==
  /\ i \in 1..Len(featuredTiles)
  /\ Handled(showFandomDetail(Store, featuredTiles[i]), "featuredClick",
             featuredTiles[i])
  /\ UNCHANGED pc

ProductTypeClick(i) ==
  /\ i \in 1..Len(typeButtons)
  /\ Handled(productTypeClick(Store, i), "typeClick", typeButtons[i].type)
  /\ UNCHANGED pc

\* a disabled button dispatches no click event
PrevClick ==
  /\ handlersBound
  /\ Handled(IF prevDisabled THEN Store ELSE prevClick(Store), "prev", "")
  /\ UNCHANGED pc

NextClick ==
  /\ handlersBound
  /\ Handled(IF nextDisabled THEN Store ELSE nextClick(Store), "next", "")
  /\ UNCHANGED pc

\* timers of one render were scheduled together with delays
\* index * animationDelay, so they fire in index order
TimerFire(i) ==
  /\ i \in 1..Len(productGrid)
  /\ productGrid[i].pending
  /\ \A j \in 1..(i - 1) : ~productGrid[j].pending
  /\ Handled(timerFire(Store, i), "timer", "")
  /\ UNCHANGED pc

StaleTimerFire(b) ==
  /\ b \in 1..Len(stale)
  /\ Handled(staleTimerFire(Store, b), "staleTimer", "")
  /\ UNCHANGED pc

Next ==
  \/ DOMContentLoaded
  \/ FetchSettles
  \/ JsonSettles
  \/ \E i \in 1..3 : FandomClick(i)
  \/ \E i \in 1..featuredCount : FeaturedClick(i)
  \/ \E i \in 1..2 : ProductTypeClick(i)
  \/ PrevClick
  \/ NextClick
  \/ \E i \in 1..itemsPerPage : TimerFire(i)
  \/ \E b \in 1..(MaxStale + 1) : StaleTimerFire(b)

Spec == Init /\ [][Next]_vars
SpecDom == InitDom /\ [][Next]_vars
SpecShape == InitShape /\ [][Next]_vars

----------------------------------------------------------------------------
(* renderProducts on its own: any fandom, any key, any page *)

ProductKeys == {"llaveros", "stickers", "pins"}

InitRender ==
  /\ server \in Failures \cup Successes(WellFormedBodies)
  /\ dom = Elements
  /\ pc = "ready"
  /\ fetches = 1
  /\ galleryData = IF server.kind = "ok" THEN server.body ELSE getFallbackData
  /\ galleryWrites = 1
  /\ banner = (server.kind # "ok")
  /\ \E i \in 1..Len(galleryData.fandoms) :
        currentFandom = galleryData.fandoms[i]
  /\ currentProductType \in ProductKeys
  /\ currentPage \in 1..MaxPage
  /\ fandomButtons = << >>
  /\ featuredTiles = << >>
  /\ typeButtons = << >>
  /\ productGrid = << >>
  /\ stale = << >>
  /\ featuredDisplay = "none"
  /\ fandomDisplay = "block"
  /\ selectedFandomName = currentFandom.name
  /\ prevDisabled = FALSE
  /\ nextDisabled = FALSE
  /\ handlersBound = FALSE
  /\ boundTotalPages = 0
  /\ uncaught = FALSE
  /\ lastEvent = [type |-> "none", arg |-> "", fromPage |-> currentPage]

RenderCall ==
  /\ Handled(renderProducts(Store), "render", "")
  /\ UNCHANGED pc

NextRender ==
  \/ RenderCall
  \/ \E i \in 1..itemsPerPage : TimerFire(i)
  \/ \E b \in 1..(MaxStale + 1) : StaleTimerFire(b)

SpecRender == InitRender /\ [][NextRender]_vars

----------------------------------------------------------------------------
(* Vocabulary of the properties *)

\* the number of products of the selected fandom under the selected key;
\* a key the fandom does not have counts as 0
ItemCount ==
  IF currentFandom = Null THEN 0
  ELSE LET hits == {i \in 1..Len(currentFandom.products) :
                      currentFandom.products[i].key = currentProductType}
       IN IF hits = {} THEN 0
          ELSE Len(currentFandom.products[CHOOSE i \in hits : TRUE].items)

\* t is the ceiling of n / itemsPerPage
IsCeil(t, n) == t >= 0 /\ t * itemsPerPage >= n /\ (t - 1) * itemsPerPage < n

TotalPages == CHOOSE t \in 0..ItemCount : IsCeil(t, ItemCount)

Detail == currentFandom # Null /\ fandomDisplay = "block"

EntersFandom ==
  \/ lastEvent.type = "fandomClick" /\ lastEvent.arg # "all"
  \/ lastEvent.type = "featuredClick"

----------------------------------------------------------------------------
(* C1 *)

\* C1: after renderProducts, with n products under the selected key (0 when
\* the key is missing) and page size 6, the captured totalPages is ceil(n/6),
\* page k shows min(6, n - (k-1)*6) tiles for 1 <= k <= totalPages and no
\* tile for k > totalPages.
C1_PageSlice ==
  lastEvent.type = "render" =>
    /\ IsCeil(boundTotalPages, ItemCount)
    /\ Len(productGrid) =
         IF currentPage <= boundTotalPages
         THEN Min(itemsPerPage, ItemCount - (currentPage - 1) * itemsPerPage)
         ELSE 0

\* the third page of 13 products has been rendered: one tile
C1_Witness ==
  /\ lastEvent.type = "render"
  /\ ItemCount = 13
  /\ currentPage = 3
  /\ boundTotalPages = 3
  /\ Len(productGrid) = 1

----------------------------------------------------------------------------
(* C2 *)

\* C2: whenever the detail view is showing, "previous" is disabled exactly
\* when currentPage = 1 and "next" is disabled exactly when currentPage =
\* totalPages or totalPages = 0, for the selected fandom and product type.
C2_PaginationBoundary ==
  Detail =>
    /\ prevDisabled <=> (currentPage = 1)
    /\ nextDisabled <=> (currentPage = TotalPages \/ TotalPages = 0)

\* a fandom without products is showing: one empty page, both controls off
C2_Witness ==
  /\ Detail
  /\ TotalPages = 0
  /\ currentPage = 1
  /\ prevDisabled
  /\ nextDisabled

----------------------------------------------------------------------------
(* C3 *)

\* C3: after showFandomDetail for a fandom of the catalog (from a fandom
\* control or a featured tile) and after a click on a product-type control,
\* currentPage is 1, whatever page the handler started on.
C3_ResetsPage ==
  (EntersFandom \/ lastEvent.type = "typeClick") => currentPage = 1

\* a product-type control clicked while on page 3
C3_Witness ==
  /\ lastEvent.type = "typeClick"
  /\ lastEvent.fromPage = 3
  /\ currentPage = 1

----------------------------------------------------------------------------
(* C4 *)

\* some control with a listener that reads the catalog exists
HasControls ==
  \/ fandomButtons # << >>
  \/ featuredTiles # << >>
  \/ typeButtons # << >>
  \/ handlersBound

\* C4: when the fetch fails (network error, non-2xx status, unparseable
\* body), loadGalleryData ends with the fallback catalog (one fandom, one
\* product type), the fandom filters and the featured grid are rendered, no
\* exception escapes, and no control exists while the catalog is null.
C4_FallbackOnFailure ==
  server \in Failures =>
    /\ HasControls => galleryData # Null
    /\ ~uncaught
    /\ pc = "ready" =>
         /\ galleryData = getFallbackData
         /\ Len(galleryData.fandoms) = 1
         /\ Len(galleryData.productTypes) = 1
         /\ banner
         /\ Len(fandomButtons) = 2
         /\ fandomButtons[1].fandom = "all"
         /\ fandomButtons[2].fandom = galleryData.fandoms[1].id
         /\ featuredTiles = << galleryData.fandoms[1].id >>

\* loadGalleryData has just ended after a body that did not parse
C4_Witness ==
  /\ server.kind = "parse_error"
  /\ lastEvent.type = "load"
  /\ pc = "ready"
  /\ galleryData = getFallbackData
  /\ Len(fandomButtons) = 2

----------------------------------------------------------------------------
(* C5 *)

\* C5: in the detail view with totalPages >= 1, 1 <= currentPage <=
\* totalPages; a prev click on page 1 and a next click on the last page
\* leave currentPage unchanged, every other prev/next click moves it by
\* exactly one.
C5_PageInRange ==
  (Detail /\ TotalPages >= 1) =>
    /\ 1 <= currentPage
    /\ currentPage <= TotalPages
    /\ lastEvent.type = "prev" =>
         currentPage = IF lastEvent.fromPage = 1 THEN 1
                       ELSE lastEvent.fromPage - 1
    /\ lastEvent.type = "next" =>
         currentPage = IF lastEvent.fromPage = TotalPages THEN TotalPages
                       ELSE lastEvent.fromPage + 1

\* "next" clicked on the last of three pages
C5_Witness ==
  /\ Detail
  /\ TotalPages = 3
  /\ lastEvent.type = "next"
  /\ lastEvent.fromPage = 3
  /\ currentPage = 3

----------------------------------------------------------------------------
(* C6 *)

\* C6: the view starts as Featured (currentFandom null); a click on the
\* control of fandom f leads to Detail(f) with currentFandom = f, a click on
\* "all" leads to Featured with currentFandom null, from any view; once the
\* gallery is initialized a fandom control can always be clicked.
C6_ViewStateMachine ==
  /\ pc # "ready" => currentFandom = Null
  /\ (lastEvent.type = "fandomClick" /\ lastEvent.arg # "all") =>
       /\ currentFandom # Null
       /\ currentFandom.id = lastEvent.arg
       /\ fandomDisplay = "block"
       /\ featuredDisplay = "none"
  /\ (lastEvent.type = "fandomClick" /\ lastEvent.arg = "all") =>
       /\ currentFandom = Null
       /\ featuredDisplay = "block"
       /\ fandomDisplay = "none"
  /\ pc = "ready" =>
       /\ \E i \in 1..Len(fandomButtons) : fandomButtons[i].fandom = "all"
       /\ \E i \in 1..Len(fandomButtons) : fandomButtons[i].fandom # "all"
       /\ ENABLED (\E i \in 1..3 : FandomClick(i))

\* "all" clicked after fandom "isaac" had been selected
C6_Witness ==
  /\ lastEvent.type = "fandomClick"
  /\ lastEvent.arg = "all"
  /\ selectedFandomName = "The Binding of Isaac"
  /\ currentFandom = Null
  /\ featuredDisplay = "block"

----------------------------------------------------------------------------
(* C7 *)

\* the keys of the selected fandom that name a defined ProductType
ResolvableKeys ==
  {i \in 1..Len(currentFandom.products) :
     \E j \in 1..Len(galleryData.productTypes) :
        galleryData.productTypes[j].id = currentFandom.products[i].key}

\* C7: on entering a fandom there is exactly one product-type control per
\* key that names a defined ProductType, no error is raised, and the first
\* control built is the active one, also when the fandom's first key is
\* not a defined ProductType.
C7_FirstControlActive ==
  (EntersFandom /\ currentFandom # Null) =>
    /\ ~uncaught
    /\ Len(typeButtons) = Cardinality(ResolvableKeys)
    /\ \A i \in ResolvableKeys :
         \E j \in 1..Len(typeButtons) :
            typeButtons[j].type = currentFandom.products[i].key
    /\ typeButtons # << >> => typeButtons[1].active

----------------------------------------------------------------------------
(* C8 *)

\* C8: whatever consumed elements are missing from the document, every
\* gallery operation returns instead of ending with an exception.
C8_NoFailureOnMissingElement == ~uncaught

----------------------------------------------------------------------------
(* C9 *)

\* C9: after a 2xx response with a parseable body the catalog is that body,
\* whatever its shape, and neither the fallback nor the banner is used; they
\* are used only after a network error, a non-2xx status or a parse error.
C9_BodyKeptOnSuccess ==
  (pc = "ready" /\ server.kind = "ok") =>
    /\ galleryData = server.body
    /\ ~banner

----------------------------------------------------------------------------
(* C10 *)

----------------------------------------------------------------------------
(* C11 *)

TimerEvents == {"timer", "staleTimer"}

\* the product ids of the tiles in the grid, in order
TileIds(grid) == [i \in 1..Len(grid) |-> grid[i].id]

\* C11: a stagger-timer callback, however it interleaves with fandom,
\* product-type and prev/next events and their re-renders, changes neither
\* View State nor the catalog, the tiles that make up the grid, the filter
\* controls or the pagination controls; it changes the style of at most the
\* one tile it was scheduled for, and a callback whose tile has left the
\* grid changes no tile of the grid.
C11_TimersOnlyStyleOwnTile ==
  [][ lastEvent'.type \in TimerEvents =>
        /\ UNCHANGED <<galleryData, galleryWrites, currentFandom,
                       currentProductType, currentPage>>
        /\ UNCHANGED <<prevDisabled, nextDisabled, handlersBound,
                       boundTotalPages>>
        /\ UNCHANGED <<fandomButtons, featuredTiles, typeButtons,
                       featuredDisplay, fandomDisplay, selectedFandomName>>
        /\ TileIds(productGrid') = TileIds(productGrid)
        /\ Cardinality({i \in 1..Len(productGrid) :
                          productGrid'[i] # productGrid[i]}) <= 1
        /\ lastEvent'.type = "staleTimer" => productGrid' = productGrid
        /\ uncaught' = uncaught ]_vars

\* a timer of a replaced render has fired while tiles of the grid that
\* replaced it still wait for theirs
C11_Witness ==
  /\ lastEvent.type = "staleTimer"
  /\ Detail
  /\ currentPage = 2
  /\ \E i \in 1..Len(productGrid) : productGrid[i].pending

----------------------------------------------------------------------------
(* Scheduling: the browser runs the DOMContentLoaded listener, settles
   response.json() of a response that has arrived, and runs every timer
   callback whose delay has passed.  Nothing makes the fetch itself settle,
   and nothing makes the user click. *)

Fairness ==
  /\ WF_vars(DOMContentLoaded)
  /\ WF_vars(JsonSettles)
  /\ WF_vars(\E i \in 1..itemsPerPage : TimerFire(i))
  /\ WF_vars(\E b \in 1..(MaxStale + 1) : StaleTimerFire(b))

SpecLive == Init /\ [][Next]_vars /\ Fairness

----------------------------------------------------------------------------
(* C12 *)

Visible(tile) == tile.opacity = "1"

AllVisible == \A i \in 1..Len(productGrid) : Visible(productGrid[i])

\* a step in which a handler replaces the tiles of the grid
Rerender ==
  /\ lastEvent'.type \notin TimerEvents
  /\ productGrid' # productGrid \/ stale' # stale

\* C12: a rendered tile is hidden until its own timer fires and visible from
\* then on; tiles of a render become visible in index order; a timer of a
\* replaced render changes no tile of the grid; and every tile of a grid
\* that is not replaced any more eventually is visible for good, also when
\* timers of earlier renders were pending when it was rendered.
C12_TilesBecomeVisible ==
  /\ [](\A i \in 1..Len(productGrid) :
          /\ productGrid[i].pending <=> productGrid[i].opacity = "0"
          /\ ~productGrid[i].pending <=> Visible(productGrid[i]))
  /\ [](\A i, j \in 1..Len(productGrid) :
          (i < j /\ Visible(productGrid[j])) => Visible(productGrid[i]))
  /\ [][ /\ lastEvent'.type = "staleTimer" => productGrid' = productGrid
         /\ ~Rerender =>
              \A i \in 1..Len(productGrid) :
                 Visible(productGrid[i]) =>
                   (i <= Len(productGrid') /\ Visible(productGrid'[i])) ]_vars
  /\ (<>[][~Rerender]_vars) => <>[]AllVisible

\* a full page has become visible although a replaced render still has a
\* timer waiting
C12_Witness ==
  /\ Detail
  /\ Len(productGrid) = itemsPerPage
  /\ AllVisible
  /\ stale # << >>
  /\ lastEvent.type = "timer"

----------------------------------------------------------------------------
(* C13 *)

\* C13: fetch is called exactly once per page load and never again; until
\* the response has arrived and been parsed the catalog is null and no
\* filter, tile or pagination handler exists, so a fetch that never responds
\* leaves the page in that state; once the fetch has settled, loadGalleryData
\* reaches its end with the gallery initialized.
C13_SingleFetchThenInit ==
  /\ [](fetches = IF pc = "start" THEN 0 ELSE 1)
  /\ [](pc # "ready" =>
          /\ galleryData = Null
          /\ galleryWrites = 0
          /\ ~HasControls
          /\ lastEvent.type = "none")
  /\ [](pc = "ready" => (fandomButtons # << >> /\ featuredTiles # << >>))
  /\ [][pc = "fetching" =>
          (pc' = "fetching" \/ pc' = "parsing" \/
           (pc' = "ready" /\ lastEvent'.type = "load"))]_vars
  /\ (pc = "parsing") ~> (pc = "ready")

\* loadGalleryData has just ended after the one fetch succeeded
C13_Witness ==
  /\ pc = "ready"
  /\ fetches = 1
  /\ server.kind = "ok"
  /\ lastEvent.type = "load"
  /\ galleryData = server.body
  /\ fandomButtons # << >>

----------------------------------------------------------------------------
(* C14 *)

\* the products of the selected fandom under the selected key, in catalog
\* order; none when the fandom has no such key
SelectedItems ==
  LET hits == {i \in 1..Len(currentFandom.products) :
                 currentFandom.products[i].key = currentProductType}
  IN IF hits = {} THEN << >>
     ELSE currentFandom.products[CHOOSE i \in hits : TRUE].items

\* the ids at positions [(currentPage-1)*6, currentPage*6) of that list
ExpectedTileIds ==
  LET first == (currentPage - 1) * itemsPerPage
      count == Cardinality({j \in 1..itemsPerPage :
                              first + j <= Len(SelectedItems)})
  IN [j \in 1..count |-> SelectedItems[first + j].id]

\* C14: in the detail view, after every handler, the tiles of the grid are
\* exactly the products at positions [(currentPage-1)*6, currentPage*6) of
\* currentFandom.products[currentProductType], in catalog order, and the
\* prev/next handlers hold the totalPages of that same list.
C14_GridIsCurrentSlice ==
  Detail =>
    /\ TileIds(productGrid) = ExpectedTileIds
    /\ handlersBound
    /\ boundTotalPages = TotalPages

\* "next" has led to the third page of 13 products
C14_Witness ==
  /\ Detail
  /\ lastEvent.type = "next"
  /\ lastEvent.fromPage = 2
  /\ currentPage = 3
  /\ TileIds(productGrid) = << <<"isaac", "llaveros", 13>> >>

----------------------------------------------------------------------------
(* Calls of showFandomDetail with an arbitrary id *)

CallIds == {"isaac", "hades", "zelda"}

ShowFandomDetailCall(id) ==
  /\ pc = "ready"
  /\ Handled(showFandomDetail(Store, id), "detailCall", id)
  /\ UNCHANGED pc

NextCall ==
  \/ Next
  \/ \E id \in CallIds : ShowFandomDetailCall(id)

SpecCall == Init /\ [][NextCall]_vars

----------------------------------------------------------------------------
(* C15 *)

\* the script never sets the initial display of the two views: the markup
\* shows the featured view and hides the fandom view until the script
\* assigns style.display
FeaturedShown == featuredDisplay \in {"", "block"}
FandomShown == fandomDisplay = "block"

InCatalog(id) ==
  \E i \in 1..Len(galleryData.fandoms) : galleryData.fandoms[i].id = id

\* C15: once the gallery is initialized, the fandom view is shown and the
\* featured view hidden exactly when currentFandom is non-null, and the
\* featured view is shown exactly when currentFandom is null; a call of
\* showFandomDetail with an id that is not in the catalog changes neither
\* the view nor View State.
C15_ViewMatchesState ==
  /\ [](pc = "ready" =>
          /\ (FandomShown /\ ~FeaturedShown) <=> (currentFandom # Null)
          /\ FeaturedShown <=> (currentFandom = Null))
  /\ [][ (lastEvent'.type = "detailCall" /\ ~InCatalog(lastEvent'.arg)) =>
           /\ UNCHANGED <<currentFandom, currentProductType, currentPage>>
           /\ UNCHANGED <<featuredDisplay, fandomDisplay, selectedFandomName,
                          typeButtons, productGrid, prevDisabled,
                          nextDisabled>>
           /\ uncaught' = uncaught ]_vars

\* showFandomDetail("zelda") called while page 2 of a fandom is showing
C15_Witness ==
  /\ lastEvent.type = "detailCall"
  /\ lastEvent.arg = "zelda"
  /\ Detail
  /\ FandomShown
  /\ ~FeaturedShown
  /\ currentPage = 2

----------------------------------------------------------------------------
(* C16 *)

\* C16: once the gallery is initialized exactly one fandom control is
\* active: "all" exactly when the view is Featured, the control of f exactly
\* when the view is Detail(f), also when Detail(f) was entered through a
\* featured tile.
C16_ActiveControlMatchesView ==
  pc = "ready" =>
    /\ Cardinality({i \in 1..Len(fandomButtons) :
                      fandomButtons[i].active}) = 1
    /\ \A i \in 1..Len(fandomButtons) :
         fandomButtons[i].active <=>
           (fandomButtons[i].fandom =
              IF currentFandom = Null THEN "all" ELSE currentFandom.id)

====
